---- MODULE Spec2Model ----
(***************************************************************************)
(* Federated query layer of the multi-database dashboard: the three        *)
(* connection adapters (MySQLConnection, MongoDBConnection,                *)
(* Neo4jConnection), the start-up initialisation of the process-wide       *)
(* handles and the person search (get_person_information).                 *)
(*                                                                         *)
(* The database drivers are the environment: every call into a driver is   *)
(* an outcome drawn from the outcomes the driver can produce.              *)
(***************************************************************************)
EXTENDS Integers, Sequences, FiniteSets, TLC

\* Largest number of rows one lookup query returns in the model.
MaxRows == 2

BackendSet == {"mysql", "mongodb", "neo4j"}

\* ------------------------------------------------------------------------
\* Handles.  field: "absent" = the module-level handle is None,
\* "none" = the handle exists and its session attribute (connection /
\* client / driver) is None, "set" = the attribute refers to a session
\* object.  sess: state of the session object the attribute refers to.
\* ------------------------------------------------------------------------
AbsentHandle == [field |-> "absent", sess |-> "none"]
NewHandle    == [field |-> "none",   sess |-> "none"]
LiveHandle   == [field |-> "set",    sess |-> "live"]
StaleHandle  == [field |-> "set",    sess |-> "stale"]

\* Outcomes of opening a session and probing it.
\*   open_error      the driver's session-open call raises the error class
\*                   the adapter names (network unreachable, auth failure)
\*   open_exception  the session-open call raises any other exception
\*   probe_fail      the session object is created, the liveness probe fails
\*   ok              the session object is created and the probe succeeds
ConnOutcomes == {"open_error", "open_exception", "probe_fail", "ok"}

\* Outcomes of running one query on a live session.
\*   rows(n)    the query returns n rows (n = 0: zero matches)
\*   error      the driver raises the error class the adapter names
\*   exception  the driver raises any other exception
\*   drop       the network drops during the query
RowsOutcome(n) == [k |-> "rows", n |-> n]
FailOutcome(k) == [k |-> k, n |-> 0]
QueryOutcomes == {RowsOutcome(n) : n \in 0..MaxRows}
                 \cup {FailOutcome(k) : k \in {"error", "exception", "drop"}}

\* The rows of a result set of n records: record i of the result set.
Rows(n) == [i \in 1..n |-> i]

\* Values a read returns.
RetRows(rs) == [k |-> "rows", rows |-> rs]
RetNone     == [k |-> "none", rows |-> << >>]
RetRaised   == [k |-> "raised", rows |-> << >>]

\* ------------------------------------------------------------------------
\* connect()
\* ------------------------------------------------------------------------
ConnResult(h, ret) == [h |-> h, ret |-> ret]

\* What the liveness probe of a connect() call did.
ProbeOf(co) ==
    CASE co = "ok"         -> "succeeded"
      [] co = "probe_fail" -> "failed"
      [] OTHER             -> "not_run"

\* A connect() that returns True as soon as the session object exists.
MySQLConnectNoProbe(h, co) ==
    CASE co = "open_error"     -> ConnResult(h, "False")
      [] co = "open_exception" -> ConnResult(h, "raised")
      [] co = "probe_fail"     -> ConnResult(StaleHandle, "True")
      [] co = "ok"             -> ConnResult(LiveHandle, "True")

\* MySQLConnection.connect: only mysql.connector.Error is caught.
MySQLConnect(h, co) ==
    CASE co = "open_error"     -> ConnResult(h, "False")
      [] co = "open_exception" -> ConnResult(h, "raised")
      [] co = "probe_fail"     -> ConnResult(StaleHandle, "False")
      [] co = "ok"             -> ConnResult(LiveHandle, "True")

\* MongoDBConnection.connect: the client is assigned before the ping.
MongoConnect(h, co) ==
    CASE co = "open_error"     -> ConnResult(h, "False")
      [] co = "open_exception" -> ConnResult(h, "False")
      [] co = "probe_fail"     -> ConnResult(StaleHandle, "False")
      [] co = "ok"             -> ConnResult(LiveHandle, "True")

\* Neo4jConnection.connect: the driver is assigned before the probe query.
Neo4jConnect(h, co) ==
    CASE co = "open_error"     -> ConnResult(h, "False")
      [] co = "open_exception" -> ConnResult(h, "False")
      [] co = "probe_fail"     -> ConnResult(StaleHandle, "False")
      [] co = "ok"             -> ConnResult(LiveHandle, "True")

ConnectOp(b, h, co) ==
    CASE b = "mysql"   -> MySQLConnect(h, co)
      [] b = "mongodb" -> MongoConnect(h, co)
      [] b = "neo4j"   -> Neo4jConnect(h, co)

\* ------------------------------------------------------------------------
\* disconnect(): the session is closed, the attribute keeps referring to it.
\* ------------------------------------------------------------------------
MySQLDisconnect(h) ==
    IF h.field = "set" /\ h.sess = "live" THEN StaleHandle ELSE h

MongoDisconnect(h) ==
    IF h.field = "set" THEN StaleHandle ELSE h

Neo4jDisconnect(h) ==
    IF h.field = "set" THEN StaleHandle ELSE h

DisconnectOp(b, h) ==
    CASE b = "mysql"   -> MySQLDisconnect(h)
      [] b = "mongodb" -> MongoDisconnect(h)
      [] b = "neo4j"   -> Neo4jDisconnect(h)

\* A method called on the session attribute: AttributeError when the
\* attribute is None.
SessionCall(h) == IF h.field = "set" THEN "None" ELSE "raised"

\* A disconnect() that closes the session without looking at the attribute.
DisconnectRetUnguarded(b, h) == SessionCall(h)

\* What disconnect() returns: the truth test of the attribute stands in
\* front of every call made on it.
DisconnectRet(b, h) == IF h.field = "set" THEN SessionCall(h) ELSE "None"

\* ------------------------------------------------------------------------
\* Reads.  A read result carries the handle after the call, the returned
\* value, the number of connect() calls made and the number of times the
\* query was run.
\* ------------------------------------------------------------------------
ReadResult(h, ret, connects, runs) ==
    [h |-> h, ret |-> ret, connects |-> connects, runs |-> runs]

\* The test that sends a read to connect() first.
MySQLNeedsConnect(h) == h.field # "set" \/ h.sess # "live"
MongoNeedsConnect(h) == h.field # "set"
Neo4jNeedsConnect(h) == h.field # "set"

\* A read that reconnects and runs the query a second time when the driver
\* reports an error.
RunQueryWithRetry(h, qo, caughtAll, connects) ==
    IF h.sess # "live"
    THEN ReadResult(h, RetNone, connects, 1)
    ELSE CASE qo.k = "rows"      -> ReadResult(h, RetRows(Rows(qo.n)), connects, 1)
           [] qo.k = "error"     -> ReadResult(h, RetNone, connects + 1, 2)
           [] qo.k = "drop"      -> ReadResult(StaleHandle, RetNone, connects + 1, 2)
           [] qo.k = "exception" ->
                ReadResult(h, IF caughtAll THEN RetNone ELSE RetRaised, connects, 1)

\* Running the query on the session the handle refers to; caughtAll: the
\* adapter's except clause catches every exception.
RunQuery(h, qo, caughtAll, connects) ==
    IF h.sess # "live"
    THEN ReadResult(h, RetNone, connects, 1)
    ELSE CASE qo.k = "rows"      -> ReadResult(h, RetRows(Rows(qo.n)), connects, 1)
           [] qo.k = "error"     -> ReadResult(h, RetNone, connects, 1)
           [] qo.k = "drop"      -> ReadResult(StaleHandle, RetNone, connects, 1)
           [] qo.k = "exception" ->
                ReadResult(h, IF caughtAll THEN RetNone ELSE RetRaised, connects, 1)

\* MySQLConnection.execute_query
MySQLExecuteQuery(h, co, qo) ==
    IF MySQLNeedsConnect(h)
    THEN LET c == MySQLConnect(h, co)
         IN  CASE c.ret = "raised" -> ReadResult(c.h, RetRaised, 1, 0)
               [] c.ret = "False"  -> ReadResult(c.h, RetNone, 1, 0)
               [] c.ret = "True"   -> RunQuery(c.h, qo, FALSE, 1)
    ELSE RunQuery(h, qo, FALSE, 0)

\* MongoDBConnection.find_documents (through get_collection, get_database).
\* The truth tests "if not database" / "if not collection" are evaluated on
\* driver objects before the query; a driver whose objects refuse truth
\* testing raises there (outcome "exception"), outside the adapter's
\* try block.
MongoRun(h, qo, connects) ==
    IF qo.k = "exception"
    THEN ReadResult(h, RetRaised, connects, 0)
    ELSE RunQuery(h, qo, FALSE, connects)

MongoFindDocuments(h, co, qo) ==
    IF MongoNeedsConnect(h)
    THEN LET c == MongoConnect(h, co)
         IN  IF c.ret = "True"
             THEN MongoRun(c.h, qo, 1)
             ELSE ReadResult(c.h, RetNone, 1, 0)
    ELSE MongoRun(h, qo, 0)

\* Neo4jConnection.execute_query
Neo4jExecuteQuery(h, co, qo) ==
    IF Neo4jNeedsConnect(h)
    THEN LET c == Neo4jConnect(h, co)
         IN  IF c.ret = "True"
             THEN RunQuery(c.h, qo, TRUE, 1)
             ELSE ReadResult(c.h, RetNone, 1, 0)
    ELSE RunQuery(h, qo, TRUE, 0)

ReadOp(b, h, co, qo) ==
    CASE b = "mysql"   -> MySQLExecuteQuery(h, co, qo)
      [] b = "mongodb" -> MongoFindDocuments(h, co, qo)
      [] b = "neo4j"   -> Neo4jExecuteQuery(h, co, qo)

\* The outcomes the driver can produce for a read on handle h: a session
\* is opened only when the adapter's test asks for connect().
NeedsConnect(b, h) ==
    CASE b = "mysql"   -> MySQLNeedsConnect(h)
      [] b = "mongodb" -> MongoNeedsConnect(h)
      [] b = "neo4j"   -> Neo4jNeedsConnect(h)

ConnOutcomesFor(b, h) == IF NeedsConnect(b, h) THEN ConnOutcomes ELSE {"ok"}

\* ------------------------------------------------------------------------
\* Read helpers built on execute_query:
\* "result = self.execute_query(...); if result: return [...]; return None".
\* An empty result is falsy, so it takes the same path as None.
\* ------------------------------------------------------------------------
ProjectResult(r) ==
    IF r.ret.k = "rows" /\ Len(r.ret.rows) = 0
    THEN ReadResult(r.h, RetNone, r.connects, r.runs)
    ELSE r

MySQLGetTableInfo(h, co, qo)     == ProjectResult(MySQLExecuteQuery(h, co, qo))
MySQLGetTables(h, co, qo)        == ProjectResult(MySQLExecuteQuery(h, co, qo))
Neo4jFindNodes(h, co, qo)         == ProjectResult(Neo4jExecuteQuery(h, co, qo))
Neo4jFindRelationships(h, co, qo) == ProjectResult(Neo4jExecuteQuery(h, co, qo))

HelperFns == {"get_table_info", "get_tables", "find_nodes", "find_relationships"}

BackendOf(fn) ==
    IF fn \in {"get_table_info", "get_tables"} THEN "mysql" ELSE "neo4j"

HelperOp(fn, h, co, qo) ==
    CASE fn = "get_table_info"     -> MySQLGetTableInfo(h, co, qo)
      [] fn = "get_tables"         -> MySQLGetTables(h, co, qo)
      [] fn = "find_nodes"         -> Neo4jFindNodes(h, co, qo)
      [] fn = "find_relationships" -> Neo4jFindRelationships(h, co, qo)

\* ------------------------------------------------------------------------
\* State
\* ------------------------------------------------------------------------
VARIABLES
    phase,        \* "boot", "booted" after initialize_database_connections, "serving"
    handle,       \* mysql_conn, mongodb_conn, neo4j_conn
    last,         \* the last adapter call made outside a person search
    pc,           \* position of the person search
    qi,           \* the lookup query the current block is at (0: its guard)
    all_results,  \* get_person_information: the list being built
    qlog,         \* the lookup queries the search has issued, with their results
    guard,        \* per backend: the handle the availability test looked at
    result,       \* what get_person_information returned
    initlog,      \* what initialize_database_connections did, per backend
    req,          \* the request function that ran last and what it returned
    input,        \* the arguments an aggregation or a validation is applied to
    output,       \* what the aggregation or the validation computed
    thr           \* per request thread: its position in execute_query

vars == <<phase, handle, last, pc, qi, all_results, qlog, guard, result,
          initlog, req, input, output, thr>>

NoCall == [op |-> "none", b |-> "none", before |-> AbsentHandle,
           ret |-> "none", connects |-> 0, runs |-> 0,
           co |-> "none", qo |-> "none"]

NoGuard == [b \in BackendSet |-> "pending"]

searchVars == <<pc, qi, all_results, qlog, guard, result>>

\* Nothing is logged outside initialize_database_connections.
NoInitLog == [b \in BackendSet |->
                 [env |-> "none", co |-> "none", reached |-> FALSE,
                  descriptor |-> "none", connects |-> 0, escaped |-> FALSE]]

\* What a request function gave its caller.
\*   kind     "pair": a (chart, summary text) pair was returned;
\*            "raised": an exception left the function
\*   summary  the summary text: "stats", "empty" (no data found),
\*            "unavailable" (connection not available), "error" (Error ...),
\*            "validation" (Please enter at least 2 keywords)
\*   queries  the execute_query calls made on the relational handle
\*   ret, n   what the relational query returned, and its number of rows
\*   terms    compare_keywords: the keywords handed to the comparison
\*   points   the data points behind the chart
\*   source   time series: the source label of the data
\*   gret, gn time series: what the graph query returned, and its rows
ReqResult(fn, kind, summary, queries, ret, n, terms, points, source, gret, gn) ==
    [fn |-> fn, kind |-> kind, summary |-> summary, queries |-> queries,
     ret |-> ret, n |-> n, terms |-> terms, points |-> points,
     source |-> source, gret |-> gret, gn |-> gn]

NoReq == ReqResult("none", "none", "none", 0, "none", 0, << >>, << >>,
                   "none", "none", 0)

\* Request threads the server runs at the same time in the model.
NumThreads == 2

Threads == 1..NumThreads

\* No thread is inside MySQLConnection.execute_query.
NoThreads == [t \in Threads |-> "idle"]

otherVars == <<req, input, output, thr>>

Init ==
    /\ phase = "boot"
    /\ handle = [b \in BackendSet |-> AbsentHandle]
    /\ last = NoCall
    /\ pc = "idle"
    /\ qi = 0
    /\ all_results = << >>
    /\ qlog = << >>
    /\ guard = NoGuard
    /\ result = "none"
    /\ initlog = NoInitLog
    /\ req = NoReq
    /\ input = << >>
    /\ output = << >>
    /\ thr = NoThreads

\* ------------------------------------------------------------------------
\* initialize_database_connections
\* ------------------------------------------------------------------------
\* create_connection_from_env: "present" = the required variables are set,
\* "missing" = one is absent (returns None), "bad_port" = int() of the port
\* variable raises.  The graph adapter reads no port.
EnvOutcomes(b) ==
    IF b = "neo4j" THEN {"present", "missing"}
    ELSE {"present", "missing", "bad_port"}

\* One try block of initialize_database_connections: the handle of backend
\* b after it.  A missing environment falls back to the default descriptor;
\* an exception leaves what was assigned before it.
InitializeBackend(b, env, co) ==
    IF env = "bad_port"
    THEN AbsentHandle
    ELSE ConnectOp(b, NewHandle, co).h

\* The order of the three try blocks.
StageRank(b) ==
    CASE b = "mysql" -> 1 [] b = "mongodb" -> 2 [] b = "neo4j" -> 3

\* An exception is raised inside the try block of backend b: by
\* create_connection_from_env or by connect().
InitRaises(b, env, co) ==
    \/ env = "bad_port"
    \/ ConnectOp(b, NewHandle, co).ret = "raised"

\* A block ending in an except clause that names only the driver's errors.
InitCaughtOnlyDriverErrors(b) == b # "mysql"

\* The except clause that closes the try block of backend b catches every
\* exception.
InitCaught(b) == TRUE

InitEscapes(b, env, co) == InitRaises(b, env, co) /\ ~InitCaught(b)

\* The block of backend b is reached: no exception left an earlier block.
InitReached(b, env, co) ==
    \A o \in BackendSet :
        StageRank(o) < StageRank(b) => ~InitEscapes(o, env[o], co[o])

\* What the block of backend b did: the descriptor its handle was built
\* from and the connect() calls it made.
InitLogOf(b, env, co) ==
    IF ~InitReached(b, env, co)
    THEN [env |-> env[b], co |-> "none", reached |-> FALSE,
          descriptor |-> "none", connects |-> 0, escaped |-> FALSE]
    ELSE [env |-> env[b],
          co |-> IF env[b] = "bad_port" THEN "none" ELSE co[b],
          reached |-> TRUE,
          descriptor |-> CASE env[b] = "present" -> "env"
                           [] env[b] = "missing" -> "default"
                           [] OTHER -> "none",
          connects |-> IF env[b] = "bad_port" THEN 0 ELSE 1,
          escaped |-> InitEscapes(b, env[b], co[b])]

InitializeDatabaseConnections ==
    /\ phase = "boot"
    /\ \E env \in [BackendSet -> {"present", "missing", "bad_port"}] :
       \E co \in [BackendSet -> ConnOutcomes] :
          /\ \A b \in BackendSet : env[b] \in EnvOutcomes(b)
          /\ handle' = [b \in BackendSet |->
                           IF InitReached(b, env, co)
                           THEN InitializeBackend(b, env[b], co[b])
                           ELSE AbsentHandle]
          /\ initlog' = [b \in BackendSet |-> InitLogOf(b, env, co)]
    /\ phase' = "booted"
    /\ UNCHANGED <<last, searchVars, otherVars>>

\* The module has been imported; the server starts to serve requests.
StartServing ==
    /\ phase = "booted"
    /\ phase' = "serving"
    /\ initlog' = NoInitLog
    /\ UNCHANGED <<handle, last, searchVars, otherVars>>

\* ------------------------------------------------------------------------
\* Adapter calls made by the other request functions and utilities.
\* Requests run to completion one at a time on the calling thread, so
\* these calls, and the loss of a session between two requests, happen
\* while no person search is in progress; a loss during a search is the
\* query outcome "drop".
\* ------------------------------------------------------------------------
Idle == phase = "serving" /\ pc = "idle"

ConnectCall(b) ==
    /\ Idle
    /\ handle[b].field # "absent"
    /\ \E co \in ConnOutcomes :
          LET c == ConnectOp(b, handle[b], co)
          IN  /\ handle' = [handle EXCEPT ![b] = c.h]
              /\ last' = [op |-> "connect", b |-> b, before |-> handle[b],
                          ret |-> c.ret, connects |-> 1, runs |-> 0,
                          co |-> co, qo |-> "none"]
    /\ UNCHANGED <<phase, searchVars, initlog, otherVars>>

DisconnectCall(b) ==
    /\ Idle
    /\ handle[b].field # "absent"
    /\ handle' = [handle EXCEPT ![b] = DisconnectOp(b, handle[b])]
    /\ last' = [op |-> "disconnect", b |-> b, before |-> handle[b],
                ret |-> DisconnectRet(b, handle[b]), connects |-> 0, runs |-> 0,
                co |-> "none", qo |-> "none"]
    /\ UNCHANGED <<phase, searchVars, initlog, otherVars>>

ReadCall(b) ==
    /\ Idle
    /\ handle[b].field # "absent"
    /\ \E co \in ConnOutcomesFor(b, handle[b]), qo \in QueryOutcomes :
          LET r == ReadOp(b, handle[b], co, qo)
          IN  /\ handle' = [handle EXCEPT ![b] = r.h]
              /\ last' = [op |-> "read", b |-> b, before |-> handle[b],
                          ret |-> r.ret.k, connects |-> r.connects,
                          runs |-> r.runs,
                          co |-> IF r.connects > 0 THEN co ELSE "none",
                          qo |-> IF r.connects > 0
                                    /\ ConnectOp(b, handle[b], co).ret # "True"
                                 THEN "none" ELSE qo.k]
    /\ UNCHANGED <<phase, searchVars, initlog, otherVars>>

\* A call of one of the read helpers; matches: the number of rows the
\* query matched when it ran and succeeded, -1 otherwise.
HelperCall(fn) ==
    /\ Idle
    /\ handle[BackendOf(fn)].field # "absent"
    /\ \E co \in ConnOutcomesFor(BackendOf(fn), handle[BackendOf(fn)]),
          qo \in QueryOutcomes :
          LET b == BackendOf(fn)
              r == HelperOp(fn, handle[b], co, qo)
              e == ReadOp(b, handle[b], co, qo)
          IN  /\ handle' = [handle EXCEPT ![b] = r.h]
              /\ last' = [op |-> fn, b |-> b, before |-> handle[b],
                          ret |-> r.ret.k, connects |-> r.connects,
                          runs |-> r.runs,
                          co |-> IF r.connects > 0 THEN co ELSE "none",
                          qo |-> IF r.runs > 0 THEN qo.k ELSE "none",
                          matches |-> IF e.ret.k = "rows"
                                      THEN Len(e.ret.rows) ELSE -1]
    /\ UNCHANGED <<phase, searchVars, initlog, otherVars>>

\* The network drops the session of backend b.
NetworkDrop(b) ==
    /\ Idle
    /\ handle[b] = LiveHandle
    /\ handle' = [handle EXCEPT ![b] = StaleHandle]
    /\ last' = NoCall
    /\ UNCHANGED <<phase, searchVars, initlog, otherVars>>

\* ------------------------------------------------------------------------
\* get_person_information
\* ------------------------------------------------------------------------
\* The lookup queries of each backend block, in the order issued.
CategoriesOf(b) ==
    CASE b = "mysql"   -> <<"faculty", "publications">>
      [] b = "mongodb" -> <<"faculty", "publications">>
      [] b = "neo4j"   -> <<"person", "publications", "collaborators">>

\* The shape of a record the adapter returns: cursor.fetchall() gives
\* tuples, find_documents gives documents, Neo4jConnection.execute_query
\* gives dict(record), a map keyed by field name.
ShapeOf(b) == IF b = "mysql" THEN "tuple" ELSE "dict"

\* How the block reads the fields of a record: by integer subscript
\* (faculty[1], person[0]) or by key (faculty.get('name', 'N/A')).
AccessOf(b) == IF b = "mongodb" THEN "key" ELSE "subscript"

\* An integer subscript on a map keyed by field names raises KeyError.
FieldAccessRaises(b) == ShapeOf(b) = "dict" /\ AccessOf(b) = "subscript"

Header(b, cat)    == [kind |-> "header", b |-> b, cat |-> cat, rec |-> 0]
Entry(b, cat, r)  == [kind |-> "record", b |-> b, cat |-> cat, rec |-> r]

\* "if rows: append the header; for each row: build its entry, append it".
\* entries: what is appended to all_results; raised: an exception left the
\* loop.
RenderSection(b, cat, rows) ==
    IF FieldAccessRaises(b)
    THEN [entries |-> <<Header(b, cat)>>, raised |-> TRUE]
    ELSE [entries |-> <<Header(b, cat)>> \o
                      [i \in 1..Len(rows) |-> Entry(b, cat, rows[i])],
          raised |-> FALSE]

LogEntry(b, cat, r) ==
    [b |-> b, cat |-> cat, ret |-> r.ret.k, rows |-> r.ret.rows,
     connects |-> r.connects, runs |-> r.runs]

\* A lookup that appends its section header before it looks at the result.
LookupStepHeaderFirst(b, cat, h, co, qo) ==
    LET r  == ReadOp(b, h, co, qo)
        lg == LogEntry(b, cat, r)
    IN  IF r.ret.k = "raised"
        THEN [h |-> r.h, out |-> << >>, log |-> lg, raised |-> TRUE]
        ELSE IF r.ret.k = "rows" /\ Len(r.ret.rows) > 0
        THEN LET sec == RenderSection(b, cat, r.ret.rows)
             IN  [h |-> r.h, out |-> sec.entries, log |-> lg,
                  raised |-> sec.raised]
        ELSE [h |-> r.h, out |-> <<Header(b, cat)>>, log |-> lg,
              raised |-> FALSE]

\* One lookup query of the try block of backend b and the rendering of its
\* rows: the handle after it, the entries appended, the query logged and
\* whether an exception left the body of the block.
LookupStep(b, cat, h, co, qo) ==
    LET r  == ReadOp(b, h, co, qo)
        lg == LogEntry(b, cat, r)
    IN  IF r.ret.k = "raised"
        THEN [h |-> r.h, out |-> << >>, log |-> lg, raised |-> TRUE]
        ELSE IF r.ret.k = "rows" /\ Len(r.ret.rows) > 0
        THEN LET sec == RenderSection(b, cat, r.ret.rows)
             IN  [h |-> r.h, out |-> sec.entries, log |-> lg,
                  raised |-> sec.raised]
        ELSE [h |-> r.h, out |-> << >>, log |-> lg, raised |-> FALSE]

\* The availability test in front of each block:
\* "mysql_conn and mysql_conn.connection" and its siblings.
Available(h) == h.field = "set"

\* A block whose except clause names only the driver's error class.
CaughtOnlyDriverErrors(b) == b # "mongodb"

\* The except clause that closes the block of backend b catches every
\* exception raised in its body.
Caught(b) == TRUE

StageOf(b) ==
    CASE b = "mysql"   -> "relational"
      [] b = "mongodb" -> "document"
      [] b = "neo4j"   -> "graph"

NextStage(b) ==
    CASE b = "mysql"   -> "document"
      [] b = "mongodb" -> "graph"
      [] b = "neo4j"   -> "merge"

\* What the availability test saw.
GuardOf(h) == IF h.field = "set" THEN h.sess ELSE h.field

\* search_person with a name and a click: the search starts.
StartSearch ==
    /\ Idle
    /\ pc' = "relational"
    /\ qi' = 0
    /\ all_results' = << >>
    /\ qlog' = << >>
    /\ guard' = NoGuard
    /\ result' = "none"
    /\ last' = NoCall
    /\ UNCHANGED <<phase, handle, initlog, otherVars>>

\* One step of the block of backend b in get_person_information: the
\* availability test (qi = 0), then one lookup query per step.
QueryBlock(b) ==
    /\ pc = StageOf(b)
    /\ IF qi = 0
       THEN /\ guard' = [guard EXCEPT ![b] = GuardOf(handle[b])]
            /\ IF Available(handle[b])
               THEN pc' = pc /\ qi' = 1
               ELSE pc' = NextStage(b) /\ qi' = 0
            /\ UNCHANGED <<handle, all_results, qlog, result>>
       ELSE \E co \in ConnOutcomesFor(b, handle[b]), qo \in QueryOutcomes :
              LET st == LookupStep(b, CategoriesOf(b)[qi], handle[b], co, qo)
              IN  /\ handle' = [handle EXCEPT ![b] = st.h]
                  /\ all_results' = all_results \o st.out
                  /\ qlog' = Append(qlog, st.log)
                  /\ guard' = guard
                  /\ IF st.raised /\ ~Caught(b)
                     THEN pc' = "done" /\ qi' = 0 /\ result' = "raised"
                     ELSE IF st.raised \/ qi = Len(CategoriesOf(b))
                     THEN pc' = NextStage(b) /\ qi' = 0 /\ result' = result
                     ELSE pc' = pc /\ qi' = qi + 1 /\ result' = result
    /\ UNCHANGED <<phase, last, initlog, otherVars>>

QueryRelational == QueryBlock("mysql")
QueryDocument   == QueryBlock("mongodb")
QueryGraph      == QueryBlock("neo4j")

\* A final test "all_results is None", which an empty list never passes.
ReportOfIsNoneTest(results) == "report"

\* The result built after the three blocks.
ReportOf(results) == IF results = << >> THEN "not_found" ELSE "report"

Merge ==
    /\ pc = "merge"
    /\ result' = ReportOf(all_results)
    /\ pc' = "done"
    /\ UNCHANGED <<phase, handle, last, qi, all_results, qlog, guard,
                   initlog, otherVars>>

\* The callback returns; the next request can start.
Return ==
    /\ pc = "done"
    /\ pc' = "idle"
    /\ qi' = 0
    /\ all_results' = << >>
    /\ qlog' = << >>
    /\ guard' = NoGuard
    /\ result' = "none"
    /\ UNCHANGED <<phase, handle, last, initlog, otherVars>>

Next ==
    \/ InitializeDatabaseConnections
    \/ StartServing
    \/ \E b \in BackendSet : ConnectCall(b)
    \/ \E b \in BackendSet : DisconnectCall(b)
    \/ \E b \in BackendSet : ReadCall(b)
    \/ \E b \in BackendSet : NetworkDrop(b)
    \/ \E fn \in HelperFns : HelperCall(fn)
    \/ StartSearch
    \/ QueryRelational
    \/ QueryDocument
    \/ QueryGraph
    \/ Merge
    \/ Return

Spec == Init /\ [][Next]_vars

\* The search runs to completion on its thread once it has started.
FairSpec ==
    /\ Spec
    /\ WF_vars(QueryRelational)
    /\ WF_vars(QueryDocument)
    /\ WF_vars(QueryGraph)
    /\ WF_vars(Merge)

\* ------------------------------------------------------------------------
\* Concurrent requests.  The server runs each callback on a thread of its
\* own; the request functions of two callbacks share mysql_conn.  A thread
\* goes through MySQLConnection.execute_query statement by statement:
\*   "test"   the reconnect test of execute_query
\*   "open"   inside connect(), before mysql.connector.connect returns
\*   "probe"  inside connect(), self.connection assigned, before
\*            is_connected() returns
\*   "query"  the cursor is run
\* ------------------------------------------------------------------------
InConnect == {"open", "probe"}

\* A request function passes its availability test and calls execute_query.
ExecuteQueryEnter(t) ==
    /\ Idle
    /\ thr[t] = "idle"
    /\ Available(handle["mysql"])
    /\ thr' = [thr EXCEPT ![t] = "test"]
    /\ UNCHANGED <<phase, handle, last, searchVars, initlog, req, input, output>>

\* "if not self.connection or not self.connection.is_connected()"
ExecuteQueryTest(t) ==
    /\ thr[t] = "test"
    /\ thr' = [thr EXCEPT ![t] = IF MySQLNeedsConnect(handle["mysql"])
                                  THEN "open" ELSE "query"]
    /\ UNCHANGED <<phase, handle, last, searchVars, initlog, req, input, output>>

\* mysql.connector.connect returns a session, which is assigned to
\* self.connection, or raises, which ends connect() and execute_query.
ConnectOpen(t) ==
    /\ thr[t] = "open"
    /\ \E co \in ConnOutcomes :
          IF ProbeOf(co) = "not_run"
          THEN /\ handle' = [handle EXCEPT
                                !["mysql"] = MySQLConnect(handle["mysql"], co).h]
               /\ thr' = [thr EXCEPT ![t] = "idle"]
          ELSE /\ handle' = [handle EXCEPT !["mysql"] = LiveHandle]
               /\ thr' = [thr EXCEPT ![t] = "probe"]
    /\ UNCHANGED <<phase, last, searchVars, initlog, req, input, output>>

\* is_connected() on the session self.connection refers to now.
ConnectProbe(t) ==
    /\ thr[t] = "probe"
    /\ \E co \in {"probe_fail", "ok"} :
          LET c == MySQLConnect(handle["mysql"], co)
          IN  /\ handle' = [handle EXCEPT !["mysql"] = c.h]
              /\ thr' = [thr EXCEPT ![t] = IF c.ret = "True"
                                            THEN "query" ELSE "idle"]
    /\ UNCHANGED <<phase, last, searchVars, initlog, req, input, output>>

\* cursor.execute / fetchall on the session self.connection refers to now.
ExecuteQueryRun(t) ==
    /\ thr[t] = "query"
    /\ \E qo \in QueryOutcomes :
          handle' = [handle EXCEPT
                        !["mysql"] = RunQuery(handle["mysql"], qo, FALSE, 0).h]
    /\ thr' = [thr EXCEPT ![t] = "idle"]
    /\ UNCHANGED <<phase, last, searchVars, initlog, req, input, output>>

ConcNext ==
    \/ InitializeDatabaseConnections
    \/ StartServing
    \/ \E b \in BackendSet : NetworkDrop(b)
    \/ \E t \in Threads : ExecuteQueryEnter(t)
    \/ \E t \in Threads : ExecuteQueryTest(t)
    \/ \E t \in Threads : ConnectOpen(t)
    \/ \E t \in Threads : ConnectProbe(t)
    \/ \E t \in Threads : ExecuteQueryRun(t)

ConcSpec == Init /\ [][ConcNext]_vars

\* ------------------------------------------------------------------------
\* The chart request functions.  Each runs to completion as one step on
\* the relational handle; Reply hands the pair to the browser.
\* ------------------------------------------------------------------------
SingleQueryFns ==
    {"keyword_search", "list_all", "university_top_keywords",
     "faculty_publications"}

\* What the rows of a result set hold, as far as the statistics care:
\*   plain         venues and keywords are present
\*   null_venues   the venue of every row is null
\*   short_tokens  no keyword token is longer than two characters
RowData == {"plain", "null_venues", "short_tokens"}

\* The statistics computed from a non-empty result set:
\* df['venue'].mode().iloc[0] raises IndexError when mode() is empty, the
\* keyword mapping is empty when every token is filtered out.
AggregateOutcome(fn, data) ==
    CASE fn \in {"keyword_search", "faculty_publications"}
              /\ data = "null_venues"  -> "raises"
      [] fn = "university_top_keywords"
              /\ data = "short_tokens" -> "nothing"
      [] OTHER                         -> "ok"

\* A request function whose body is not inside a try block.
RequestCaughtNothing(fn) == fn = "none"

\* The body of every request function is one try block closed by
\* "except Exception", after which the pair is returned.
RequestCaught(fn) == TRUE

\* "results = execute_query(...); if results: statistics else: no data":
\* the summary the body reaches, "raised" when an exception leaves it.
SummaryOfRows(ret, agg) ==
    CASE ret.k = "raised"                       -> "raised"
      [] ret.k = "none"                         -> "empty"
      [] ret.k = "rows" /\ Len(ret.rows) = 0    -> "empty"
      [] agg = "raises"                         -> "raised"
      [] agg = "nothing"                        -> "empty"
      [] OTHER                                  -> "stats"

\* The pair a body gives: an exception that leaves the body is turned into
\* the error summary by the except clause, or leaves the function.
Outcome(fn, summary) ==
    IF summary = "raised"
    THEN IF RequestCaught(fn)
         THEN [kind |-> "pair", summary |-> "error"]
         ELSE [kind |-> "raised", summary |-> "none"]
    ELSE [kind |-> "pair", summary |-> summary]

\* get_publications_by_keyword, get_all_publications,
\* get_university_keywords, get_faculty_publications.
SingleQueryRequest(fn, h, co, qo, data) ==
    IF ~Available(h)
    THEN [h |-> h,
          req |-> ReqResult(fn, "pair", "unavailable", 0, "not_issued", 0,
                            << >>, << >>, "none", "none", 0)]
    ELSE LET r == MySQLExecuteQuery(h, co, qo)
             o == Outcome(fn, SummaryOfRows(r.ret, AggregateOutcome(fn, data)))
         IN  [h |-> r.h,
              req |-> ReqResult(fn, o.kind, o.summary, 1, r.ret.k,
                                Len(r.ret.rows), << >>, << >>,
                                "none", "none", 0)]

Serving == phase = "serving" /\ pc = "idle" /\ req = NoReq

SingleQueryCall(fn) ==
    /\ Serving
    /\ \E co \in ConnOutcomesFor("mysql", handle["mysql"]),
          qo \in QueryOutcomes, data \in RowData :
          LET c == SingleQueryRequest(fn, handle["mysql"], co, qo, data)
          IN  /\ handle' = [handle EXCEPT !["mysql"] = c.h]
              /\ req' = c.req
              /\ input' = IF c.req.n > 0 THEN <<data>> ELSE << >>
    /\ UNCHANGED <<phase, last, searchVars, initlog, output, thr>>

KeywordSearch         == SingleQueryCall("keyword_search")
ListAll               == SingleQueryCall("list_all")
UniversityTopKeywords == SingleQueryCall("university_top_keywords")
FacultyPublications   == SingleQueryCall("faculty_publications")

\* ---- compare_keywords -------------------------------------------------
\* The value of a text input: None, or a string (a sequence of characters).
NoneTerm == [none |-> TRUE, text |-> << >>]
TextTerm(s) == [none |-> FALSE, text |-> s]

\* The values a keyword input takes in the model.
TermValues ==
    {NoneTerm, TextTerm(<<" ">>), TextTerm(<<"a">>), TextTerm(<<" ", "b", " ">>)}

\* The number of keyword inputs of the comparison form.
NumTerms == 5

\* str.strip()
RECURSIVE LStrip(_)
LStrip(s) ==
    IF s = << >> THEN s
    ELSE IF Head(s) = " " THEN LStrip(Tail(s)) ELSE s

RECURSIVE RStrip(_)
RStrip(s) ==
    IF s = << >> THEN s
    ELSE IF s[Len(s)] = " " THEN RStrip(SubSeq(s, 1, Len(s) - 1)) ELSE s

Strip(s) == RStrip(LStrip(s))

\* "kw and kw.strip()"
NonBlank(kw) == ~kw.none /\ kw.text # << >> /\ Strip(kw.text) # << >>

\* The same list with repeated keywords removed, first occurrence kept.
RECURSIVE Dedup(_)
Dedup(ks) ==
    IF ks = << >> THEN ks
    ELSE LET rest == Dedup(SubSeq(ks, 1, Len(ks) - 1))
             k    == ks[Len(ks)]
         IN  IF \E i \in DOMAIN rest : rest[i] = k THEN rest ELSE Append(rest, k)

CollectKeywordsDeduplicated(kws) ==
    LET kept == SelectSeq(kws, NonBlank)
    IN  Dedup([i \in 1..Len(kept) |-> Strip(kept[i].text)])

\* "[kw.strip() for kw in [keyword1 .. keyword5] if kw and kw.strip()]"
CollectKeywords(kws) ==
    LET kept == SelectSeq(kws, NonBlank)
    IN  [i \in 1..Len(kept) |-> Strip(kept[i].text)]

\* The outcomes of one aggregate query of the comparison: one row, the
\* driver's error, any other exception.
CompareOutcomes ==
    {RowsOutcome(1), FailOutcome("error"), FailOutcome("exception")}

\* The loop of get_keyword_comparison from keyword i on: one execute_query
\* per keyword, one data point appended per keyword (the row's figures, or
\* zeros when the query gave nothing).
RECURSIVE CompareLoop(_, _, _, _, _, _)
CompareLoop(keywords, i, h, co, qos, points) ==
    IF i > Len(keywords)
    THEN [h |-> h, points |-> points, queries |-> i - 1, raised |-> FALSE]
    ELSE LET r == MySQLExecuteQuery(h, co, qos[i])
         IN  IF r.ret.k = "raised"
             THEN [h |-> r.h, points |-> points, queries |-> i, raised |-> TRUE]
             ELSE CompareLoop(keywords, i + 1, r.h, co, qos,
                      Append(points,
                             [keyword |-> keywords[i],
                              found |-> r.ret.k = "rows" /\ Len(r.ret.rows) > 0]))

\* get_keyword_comparison
GetKeywordComparison(keywords, h, co, qos) ==
    IF ~Available(h)
    THEN [h |-> h,
          req |-> ReqResult("compare_keywords", "pair", "unavailable", 0,
                            "not_issued", 0, keywords, << >>, "none", "none", 0)]
    ELSE LET l == CompareLoop(keywords, 1, h, co, qos, << >>)
             o == Outcome("compare_keywords",
                          IF l.raised THEN "raised"
                          ELSE IF l.points = << >> THEN "empty" ELSE "stats")
         IN  [h |-> l.h,
              req |-> ReqResult("compare_keywords", o.kind, o.summary,
                                l.queries, "none", 0, keywords,
                                IF l.raised THEN << >> ELSE l.points,
                                "none", "none", 0)]

\* compare_keywords with a click: the validation, then the comparison.
CompareKeywordsOp(kws, h, co, qos) ==
    LET keywords == CollectKeywords(kws)
    IN  IF Len(keywords) < 2
        THEN [h |-> h,
              req |-> ReqResult("compare_keywords", "pair", "validation", 0,
                                "not_issued", 0, keywords, << >>,
                                "none", "none", 0)]
        ELSE GetKeywordComparison(keywords, h, co, qos)

\* The outcomes of the k aggregate queries of one comparison: they are
\* drawn only when the queries reach the server.
CompareOutcomesFor(h, co, k) ==
    IF Available(h) /\ (MySQLNeedsConnect(h) => co = "ok")
    THEN [1..k -> CompareOutcomes]
    ELSE {[i \in 1..k |-> FailOutcome("error")]}

\* The text inputs the last comparison was called with are kept in input.
CompareKeywords ==
    /\ Serving
    /\ \E kws \in [1..NumTerms -> TermValues] :
       \E co \in ConnOutcomesFor("mysql", handle["mysql"]) :
       \E qos \in CompareOutcomesFor(handle["mysql"], co,
                                     Len(CollectKeywords(kws))) :
          LET c == CompareKeywordsOp(kws, handle["mysql"], co, qos)
          IN  /\ handle' = [handle EXCEPT !["mysql"] = c.h]
              /\ req' = c.req
              /\ input' = kws
    /\ UNCHANGED <<phase, last, searchVars, initlog, output, thr>>

\* ---- get_timeseries_widget_data ------------------------------------------
\* MongoDBConnection has no execute_aggregation method: the call raises
\* AttributeError before any query is sent.
MongoExecuteAggregation(h) == ReadResult(h, RetRaised, 0, 0)

\* The rows a source block appends to publication_data: the rows are read
\* with row[0], row[1] (doc['_id'], doc['count'] in the document block);
\* an exception in the block appends nothing.
SourceRows(b, r) ==
    IF r.ret.k = "rows" /\ ~FieldAccessRaises(b) THEN r.ret.rows ELSE << >>

\* The three source blocks in order, each tried only while publication_data
\* is empty, then the generated sample data.
TimeseriesOp(hs, co, qoM, qoG) ==
    LET rm == IF Available(hs["mysql"])
              THEN MySQLExecuteQuery(hs["mysql"], co, qoM)
              ELSE ReadResult(hs["mysql"], RetNone, 0, 0)
        dm == IF Available(hs["mysql"]) THEN SourceRows("mysql", rm) ELSE << >>
        rd == IF Available(hs["mongodb"]) /\ dm = << >>
              THEN MongoExecuteAggregation(hs["mongodb"])
              ELSE ReadResult(hs["mongodb"], RetNone, 0, 0)
        dd == SourceRows("mongodb", rd)
        askG == Available(hs["neo4j"]) /\ dm = << >> /\ dd = << >>
        rg == IF askG
              THEN Neo4jExecuteQuery(hs["neo4j"], "ok", qoG)
              ELSE ReadResult(hs["neo4j"], RetNone, 0, 0)
        dg == IF askG THEN SourceRows("neo4j", rg) ELSE << >>
        src == CASE dm # << >> -> "MySQL"
                 [] dd # << >> -> "MongoDB"
                 [] dg # << >> -> "Neo4j"
                 [] OTHER      -> "Sample Data"
        o == Outcome("publications_timeseries", "stats")
    IN  [hs |-> [hs EXCEPT !["mysql"] = rm.h, !["mongodb"] = rd.h,
                           !["neo4j"] = rg.h],
         req |-> ReqResult("publications_timeseries", o.kind, o.summary,
                           rm.runs, IF Available(hs["mysql"]) THEN rm.ret.k
                                    ELSE "not_issued",
                           Len(rm.ret.rows), << >>, dm \o dd \o dg, src,
                           IF askG THEN rg.ret.k ELSE "not_issued",
                           Len(rg.ret.rows))]

PublicationsTimeseries ==
    /\ Serving
    /\ \E co \in ConnOutcomesFor("mysql", handle["mysql"]),
          qoM \in QueryOutcomes, qoG \in QueryOutcomes :
          LET c == TimeseriesOp(handle, co, qoM, qoG)
          IN  /\ handle' = c.hs
              /\ req' = c.req
    /\ UNCHANGED <<phase, last, searchVars, initlog, input, output, thr>>

\* The callback returns the pair; the next request can start.
Reply ==
    /\ req # NoReq
    /\ req' = NoReq
    /\ input' = << >>
    /\ UNCHANGED <<phase, handle, last, searchVars, initlog, output, thr>>

ReqNext ==
    \/ InitializeDatabaseConnections
    \/ StartServing
    \/ KeywordSearch
    \/ ListAll
    \/ CompareKeywords
    \/ UniversityTopKeywords
    \/ FacultyPublications
    \/ PublicationsTimeseries
    \/ Reply

ReqSpec == Init /\ [][ReqNext]_vars

\* ------------------------------------------------------------------------
\* The aggregation steps of the request functions, applied to the rows of
\* a result set.  A row holds the year and the venue of a publication;
\* venues and keyword tokens are numbered in their sort order.
\* ------------------------------------------------------------------------
\* A NULL column value (None in the row, NaN in the data frame); as a
\* keyword token: a token the filter "keyword and len(keyword) > 2" drops.
NullValue == 0

\* Largest number of freely drawn rows of a result set in the model.
MaxRecs == 3

\* The number of partitions a ranking keeps: head(10), [:10].
TopLimit == 10

RowValues == [year : {NullValue, 2019, 2020}, venue : {NullValue, 1, 2}]

\* Rows of TopLimit - 1 further venues, one publication each, which take a
\* result set to the ranking's limit.
PadRows == [i \in 1..(TopLimit - 1) |-> [year |-> 2019, venue |-> i + 2]]

FreeRows == UNION {[1..n -> RowValues] : n \in 0..MaxRecs}

\* The result sets the aggregation is applied to.
AggInputs ==
    FreeRows \cup {PadRows \o t : t \in FreeRows}
             \cup {t \o PadRows : t \in FreeRows}

\* The elements of a set of numbers in ascending order.
RECURSIVE Ascending(_)
Ascending(S) ==
    IF S = {} THEN << >>
    ELSE LET m == CHOOSE x \in S : \A y \in S : x <= y
         IN  <<m>> \o Ascending(S \ {m})

\* df.groupby(field).size().reset_index(name='count'): one partition per
\* distinct value of the column, in ascending order of the value; rows
\* whose value is null are in no partition (groupby drops null keys).
GroupBySize(R, field) ==
    LET ks == Ascending({R[i][field] : i \in DOMAIN R} \ {NullValue})
    IN  [j \in 1..Len(ks) |->
            [key |-> ks[j],
             count |-> Cardinality({i \in DOMAIN R : R[i][field] = ks[j]})]]

\* sort_values('year'): the partitions in ascending order of their key.
SortValuesByKey(parts) ==
    LET ks == Ascending({parts[i].key : i \in DOMAIN parts})
    IN  [j \in 1..Len(ks) |->
            parts[CHOOSE i \in DOMAIN parts : parts[i].key = ks[j]]]

\* year_counts of get_publications_by_keyword and get_faculty_publications.
YearCounts(R) == SortValuesByKey(GroupBySize(R, "year"))

\* How a sort leaves partitions of equal count: "kept" in the order they
\* had, "reversed" in the opposite order.  sorted() is stable;
\* sort_values uses quicksort, which promises neither.
TieOrders == {"kept", "reversed"}

RECURSIVE InsertByCount(_, _, _)
InsertByCount(sorted, x, tie) ==
    IF sorted = << >> THEN <<x>>
    ELSE IF \/ Head(sorted).count > x.count
            \/ (tie = "kept" /\ Head(sorted).count = x.count)
         THEN <<Head(sorted)>> \o InsertByCount(Tail(sorted), x, tie)
         ELSE <<x>> \o sorted

\* The partitions by count descending.
RECURSIVE SortByCountDescending(_, _)
SortByCountDescending(parts, tie) ==
    IF parts = << >> THEN << >>
    ELSE InsertByCount(
             SortByCountDescending(SubSeq(parts, 1, Len(parts) - 1), tie),
             parts[Len(parts)], tie)

\* head(n), [:n]
FirstN(seq, n) == SubSeq(seq, 1, IF Len(seq) < n THEN Len(seq) ELSE n)

\* A ranking that takes the first partitions in key order.
TopVenuesUnsorted(R, tie) == FirstN(GroupBySize(R, "venue"), TopLimit)

\* venue_counts of get_faculty_publications:
\* groupby('venue').size(), sort_values('count', ascending=False), head(10)
TopVenues(R, tie) ==
    FirstN(SortByCountDescending(GroupBySize(R, "venue"), tie), TopLimit)

\* The keyword tokens of a university's rows in the order the loops meet
\* them, each with the COUNT(*) of its row: the venue column of the drawn
\* rows read as tokens, the rows of 2020 counting twice.
TokensOf(R) ==
    [i \in DOMAIN R |->
        [key |-> R[i].venue, count |-> IF R[i].year = 2020 THEN 2 ELSE 1]]

\* keyword_counts[keyword] += count, a new keyword goes to the end.
AddCount(items, t) ==
    IF \E i \in DOMAIN items : items[i].key = t.key
    THEN [i \in DOMAIN items |->
            IF items[i].key = t.key
            THEN [key |-> t.key, count |-> items[i].count + t.count]
            ELSE items[i]]
    ELSE Append(items, t)

\* keyword_counts of get_university_keywords, in insertion order.
RECURSIVE KeywordCounts(_)
KeywordCounts(tokens) ==
    IF tokens = << >> THEN << >>
    ELSE LET rest == KeywordCounts(SubSeq(tokens, 1, Len(tokens) - 1))
             t    == tokens[Len(tokens)]
         IN  IF t.key = NullValue THEN rest ELSE AddCount(rest, t)

\* sorted(keyword_counts.items(), key=lambda x: x[1], reverse=True)[:10]
TopKeywords(items) == FirstN(SortByCountDescending(items, "kept"), TopLimit)

AggInit ==
    /\ phase = "boot"
    /\ handle = [b \in BackendSet |-> AbsentHandle]
    /\ last = NoCall
    /\ pc = "idle"
    /\ qi = 0
    /\ all_results = << >>
    /\ qlog = << >>
    /\ guard = NoGuard
    /\ result = "none"
    /\ initlog = NoInitLog
    /\ req = NoReq
    /\ input \in AggInputs
    /\ output = << >>
    /\ thr = NoThreads

NoOutput == << >>

\* The aggregation steps applied to the drawn rows.
Aggregate ==
    /\ output = NoOutput
    /\ \E tie \in TieOrders :
          output' = [year_counts    |-> YearCounts(input),
                     top_venues     |-> TopVenues(input, tie),
                     keyword_counts |-> KeywordCounts(TokensOf(input)),
                     top_keywords   |-> TopKeywords(KeywordCounts(TokensOf(input)))]
    /\ UNCHANGED <<phase, handle, last, searchVars, initlog, req, input, thr>>

AggNext == Aggregate

AggSpec == AggInit /\ [][AggNext]_vars

\* ------------------------------------------------------------------------
\* Keyword explosion (get_university_keywords).  A string is a sequence of
\* characters; a row holds the keywords column and the COUNT(*) of the
\* publications sharing it.
\* ------------------------------------------------------------------------
\* str.lower() on one character.
Lower(c) ==
    CASE c = "A" -> "a" [] c = "I" -> "i" [] c = "L" -> "l"
      [] c = "M" -> "m" [] c = "N" -> "n" [] c = "P" -> "p"
      [] OTHER -> c

\* A lower() that leaves the string as it is.
LowerStrUnchanged(s) == s

\* str.lower()
LowerStr(s) == [i \in DOMAIN s |-> Lower(s[i])]

\* str.split(sep)
RECURSIVE Split(_, _)
Split(s, sep) ==
    IF \A i \in DOMAIN s : s[i] # sep
    THEN <<s>>
    ELSE LET i == CHOOSE i \in DOMAIN s :
                      s[i] = sep /\ \A j \in 1..(i - 1) : s[j] # sep
         IN  <<SubSeq(s, 1, i - 1)>> \o Split(SubSeq(s, i + 1, Len(s)), sep)

\* The length up to which a token is dropped: len(keyword) > 2.
ShortTokenLen == 2

\* "if keyword and len(keyword) > 2"
TokenKept(t) == t # << >> /\ Len(t) > ShortTokenLen

\* The tokens one row adds, in order, each with the count of the row:
\* row[0].split(',') if row[0] else [], keyword.strip().lower(), the filter.
RowTokens(row) ==
    LET parts == IF row.keywords = << >> THEN << >>
                 ELSE Split(row.keywords, ",")
        norm  == [i \in DOMAIN parts |-> LowerStr(Strip(parts[i]))]
        kept  == SelectSeq(norm, TokenKept)
    IN  [i \in DOMAIN kept |-> [key |-> kept[i], count |-> row.count]]

RECURSIVE ExplodeRows(_)
ExplodeRows(rows) ==
    IF rows = << >> THEN << >>
    ELSE RowTokens(Head(rows)) \o ExplodeRows(Tail(rows))

\* The mapping after every token has been added, in insertion order.
RECURSIVE Accumulate(_)
Accumulate(tokens) ==
    IF tokens = << >> THEN << >>
    ELSE AddCount(Accumulate(SubSeq(tokens, 1, Len(tokens) - 1)),
                  tokens[Len(tokens)])

\* keyword_counts of get_university_keywords over the rows returned.
KeywordExplosion(rows) == Accumulate(ExplodeRows(rows))

\* "AI, Machine Learning"
KwAiMl ==
    <<"A", "I", ",", " ", "M", "a", "c", "h", "i", "n", "e", " ", "L",
      "e", "a", "r", "n", "i", "n", "g">>

\* "ai,NLP"
KwAiNlp ==
    <<"a", "i", ",", "N", "L", "P">>

\* "nlp, NLP"
KwNlpTwice ==
    <<"n", "l", "p", ",", " ", "N", "L", "P">>

\* " ,ab"
KwBlankAb ==
    <<" ", ",", "a", "b">>

\* " NLP ,machine learning"
KwNlpMl ==
    <<" ", "N", "L", "P", " ", ",", "m", "a", "c", "h", "i", "n", "e",
      " ", "l", "e", "a", "r", "n", "i", "n", "g">>

KeywordStrings == {KwAiMl, KwAiNlp, KwNlpTwice, KwBlankAb, KwNlpMl}

\* Largest number of rows of a keyword result set in the model.
MaxKwRows == 2

KwRowValues == [keywords : KeywordStrings, count : {1, 2}]

KwInputs == UNION {[1..n -> KwRowValues] : n \in 0..MaxKwRows}

KwInit ==
    /\ phase = "boot"
    /\ handle = [b \in BackendSet |-> AbsentHandle]
    /\ last = NoCall
    /\ pc = "idle"
    /\ qi = 0
    /\ all_results = << >>
    /\ qlog = << >>
    /\ guard = NoGuard
    /\ result = "none"
    /\ initlog = NoInitLog
    /\ req = NoReq
    /\ input \in KwInputs
    /\ output = << >>
    /\ thr = NoThreads

\* The explosion and the ranking applied to the drawn rows.
Explode ==
    /\ output = NoOutput
    /\ output' = [keyword_counts |-> KeywordExplosion(input),
                  sorted_keywords |-> TopKeywords(KeywordExplosion(input))]
    /\ UNCHANGED <<phase, handle, last, searchVars, initlog, req, input, thr>>

KwNext == Explode

KwSpec == KwInit /\ [][KwNext]_vars

\* ------------------------------------------------------------------------
\* The publication statistics of get_faculty_publications over the
\* 'citations' column of a non-empty result set.
\* ------------------------------------------------------------------------
\* Largest citation count of a publication in the model.
MaxCitations == 3

\* Twice the rank df['citations'].rank(ascending=False) gives position i:
\* the largest value has rank 1 and equal values share the average of the
\* ranks they cover, g + (e + 1) / 2 for e equal values below g greater ones.
TwiceRank(cites, i) ==
    2 * Cardinality({j \in DOMAIN cites : cites[j] > cites[i]})
    + Cardinality({j \in DOMAIN cites : cites[j] = cites[i]}) + 1

\* len(df[df['citations'] >= df['citations'].rank(ascending=False)])
HIndex(cites) ==
    Cardinality({i \in DOMAIN cites : 2 * cites[i] >= TwiceRank(cites, i)})

RECURSIVE SumSeq(_)
SumSeq(cites) ==
    IF cites = << >> THEN 0 ELSE Head(cites) + SumSeq(Tail(cites))

CitationInputs == UNION {[1..n -> 0..MaxCitations] : n \in 1..MaxRecs}

StatInit ==
    /\ phase = "boot"
    /\ handle = [b \in BackendSet |-> AbsentHandle]
    /\ last = NoCall
    /\ pc = "idle"
    /\ qi = 0
    /\ all_results = << >>
    /\ qlog = << >>
    /\ guard = NoGuard
    /\ result = "none"
    /\ initlog = NoInitLog
    /\ req = NoReq
    /\ input \in CitationInputs
    /\ output = << >>
    /\ thr = NoThreads

\* total_pubs, total_citations and h_index of the drawn column.
Statistics ==
    /\ output = NoOutput
    /\ output' = [total_pubs |-> Len(input),
                  total_citations |-> SumSeq(input),
                  h_index |-> HIndex(input)]
    /\ UNCHANGED <<phase, handle, last, searchVars, initlog, req, input, thr>>

StatNext == Statistics

StatSpec == StatInit /\ [][StatNext]_vars

\* ------------------------------------------------------------------------
\* Properties
\* ------------------------------------------------------------------------
Range(f) == {f[i] : i \in DOMAIN f}

\* The lookup queries the search has issued to backend b.
QueriesOf(b) == {i \in DOMAIN qlog : qlog[i].b = b}

\* The entries of the report attributed to backend b.
EntriesOf(b) == {i \in DOMAIN all_results : all_results[i].b = b}

Failed(q) == q.ret \in {"none", "raised"}

\* Every block has been passed, and every backend whose availability test
\* succeeded has been queried.
AllBlocksPassed ==
    \A b \in BackendSet :
        /\ guard[b] # "pending"
        /\ guard[b] \in {"live", "stale"} => QueriesOf(b) # {}

\* C1: whatever the handles are and whatever each lookup query does (rows,
\* zero rows, failure value, raised exception), a person search that has
\* started ends with a report value (the report or the "not found"
\* result), no exception leaves get_person_information, and every backend
\* whose availability test succeeds is queried, whatever happened in the
\* blocks before it.
C1_SearchSafe ==
    /\ result # "raised"
    /\ pc = "done" => result \in {"report", "not_found"}
    /\ pc \in {"merge", "done"} => AllBlocksPassed

\* C1: the safety part above holds in every state, and a search that has
\* entered its first block reaches its return.
C1_SearchAlwaysReturns ==
    /\ []C1_SearchSafe
    /\ (pc = "relational") ~> (pc = "done")

\* A search has returned although a relational query raised and a document
\* query failed, and the graph backend was still queried.
C1_Witness ==
    /\ pc = "done"
    /\ result \in {"report", "not_found"}
    /\ \E i \in QueriesOf("mysql") : qlog[i].ret = "raised"
    /\ \E i \in QueriesOf("mongodb") : Failed(qlog[i])
    /\ QueriesOf("neo4j") # {}

\* The records backend b has returned to the search, in the order returned,
\* as the report entries they should give.
RECURSIVE ReturnedFrom(_, _)
ReturnedFrom(b, i) ==
    IF i > Len(qlog)
    THEN << >>
    ELSE (IF qlog[i].b = b
          THEN [j \in 1..Len(qlog[i].rows) |->
                    Entry(b, qlog[i].cat, qlog[i].rows[j])]
          ELSE << >>) \o ReturnedFrom(b, i + 1)

ReturnedOf(b) == ReturnedFrom(b, 1)

\* The record entries of the report attributed to backend b, in order.
RecordsOf(b) ==
    SelectSeq(all_results, LAMBDA e : e.kind = "record" /\ e.b = b)

RecordEntries == SelectSeq(all_results, LAMBDA e : e.kind = "record")

\* C2: a backend whose handle is unavailable or whose session is not
\* connected when its block is reached is skipped (no query issued to it,
\* nothing in the report under its label), and every record the other
\* backends return is in the report under their labels.
C2_UnavailableBackendSkipped ==
    pc = "done" =>
        \A b \in BackendSet :
            guard[b] # "live" =>
                /\ QueriesOf(b) = {}
                /\ EntriesOf(b) = {}
                /\ \A o \in BackendSet \ {b} : RecordsOf(o) = ReturnedOf(o)

C4_ReportHoldsEveryRecord ==
    pc = "done" =>
        /\ RecordEntries =
              ReturnedOf("mysql") \o ReturnedOf("mongodb") \o ReturnedOf("neo4j")
        /\ \A i, j \in DOMAIN all_results :
              i < j => StageRank(all_results[i].b) <= StageRank(all_results[j].b)

\* C5: a search in which every lookup query that was issued returned zero
\* records ends with the "not found" result, which is a returned value and
\* not a raised exception.
C5_ZeroRecordsIsNotFound ==
    (/\ pc = "done"
     /\ qlog # << >>
     /\ \A i \in DOMAIN qlog : qlog[i].ret = "rows" /\ qlog[i].rows = << >>)
    => result = "not_found"

\* All three backends were queried, each lookup returned zero rows, and
\* the search returned "not found".
C5_Witness ==
    /\ pc = "done"
    /\ result = "not_found"
    /\ Len(qlog) = 7
    /\ \A i \in DOMAIN qlog : qlog[i].ret = "rows" /\ qlog[i].rows = << >>

\* C6: when none of the three backends can be reached the search result
\* says so: it is not the "not found" result of a search whose reachable
\* backends matched nothing.
C6_UnreachableIsDistinguished ==
    (/\ pc = "done"
     /\ \A b \in BackendSet : guard[b] # "live"
     /\ \A i \in DOMAIN qlog : qlog[i].runs = 0 \/ qlog[i].ret # "rows")
    => result # "not_found"

\* C7: connect() never raises; whatever fault occurs while the session is
\* opened or probed, it returns False.
C7_ConnectNeverRaises ==
    last.op = "connect" =>
        /\ last.ret # "raised"
        /\ last.co # "ok" => last.ret = "False"

\* C8: after connect() has returned False the availability test of the
\* request functions is false for that backend.
C8_FailedConnectMarksUnavailable ==
    (last.op = "connect" /\ last.ret = "False") => ~Available(handle[last.b])

\* C9: a read on a handle whose session is stale makes exactly one
\* reconnect attempt; if it succeeds the query runs on the new session, if
\* it fails the read returns the failure value.
C9_StaleReadReconnectsOnce ==
    (last.op = "read" /\ last.before = StaleHandle) =>
        /\ last.connects = 1
        /\ last.co = "ok" => last.runs = 1 /\ handle[last.b].field = "set"
        /\ last.co # "ok" => last.runs = 0 /\ last.ret = "none"

Faults == {"error", "exception", "drop"}

C11_DisconnectIdempotent ==
    last.op = "disconnect" =>
        /\ last.ret = "None"
        /\ handle[last.b] = DisconnectOp(last.b, last.before)
        /\ handle[last.b].sess # "live"
        /\ DisconnectOp(last.b, handle[last.b]) = handle[last.b]
        /\ DisconnectRet(last.b, handle[last.b]) = "None"

\* disconnect() was called on a graph handle that never had a session and
\* returned.
C11_Witness ==
    /\ last.op = "disconnect"
    /\ last.b = "neo4j"
    /\ last.before = NewHandle
    /\ last.ret = "None"

\* C12: connect() returns True only after the liveness probe of that same
\* call has succeeded (is_connected on the relational adapter, the admin
\* ping on the document adapter, RETURN 1 on the graph adapter); the
\* session it leaves is then the probed one.
C12_TrueOnlyAfterProbe ==
    (last.op = "connect" /\ last.ret = "True") =>
        /\ ProbeOf(last.co) = "succeeded"
        /\ handle[last.b] = LiveHandle

\* connect() on a relational handle whose earlier session had been lost
\* returned True after its probe succeeded.
C12_Witness ==
    /\ last.op = "connect"
    /\ last.b = "mysql"
    /\ last.before = StaleHandle
    /\ last.ret = "True"
    /\ last.co = "ok"

\* C17: initialize_database_connections reaches the block of every
\* backend and no exception leaves it, whatever the environment holds and
\* whatever each connect() does; a backend whose required variables are
\* absent gets a handle built from the default descriptor, on which
\* connect() is called once.
C17_InitializationCompletes ==
    phase = "booted" =>
        \A b \in BackendSet :
            /\ initlog[b].reached
            /\ ~initlog[b].escaped
            /\ initlog[b].env = "missing" =>
                  /\ initlog[b].descriptor = "default"
                  /\ initlog[b].connects = 1
                  /\ handle[b].field # "absent"
                  /\ handle[b] = ConnectOp(b, NewHandle, initlog[b].co).h

\* The relational block raised (port variable not a number), the document
\* block fell back to the default descriptor and its connect() failed, and
\* the graph block still connected from the default descriptor.
C17_Witness ==
    /\ phase = "booted"
    /\ initlog["mysql"].env = "bad_port"
    /\ initlog["mongodb"].env = "missing"
    /\ initlog["mongodb"].co = "open_error"
    /\ initlog["neo4j"].env = "missing"
    /\ handle["neo4j"] = LiveHandle

\* C13: when two requests interleave on the relational handle while its
\* session is down, at most one connect() call is in progress on the
\* handle at any time (opening a session or assigning and probing it).
C13_OneReconnectAtATime ==
    Cardinality({t \in Threads : thr[t] \in InConnect}) <= 1

Summaries == {"stats", "empty", "unavailable", "error", "validation"}

\* C14: every chart request function (keyword_search, list_all,
\* compare_keywords, university_top_keywords, faculty_publications,
\* publications_timeseries) gives its caller a (chart, summary text) pair
\* on every path: backend not connected, query failed, zero rows, rows
\* present, exception raised while aggregating; none raises.
C14_AlwaysAPair ==
    req.fn # "none" =>
        /\ req.kind = "pair"
        /\ req.summary \in Summaries

\* A keyword search whose query returned rows and whose statistics raised
\* (no venue among the rows) returned the pair with the error summary.
C14_Witness ==
    /\ req.fn = "keyword_search"
    /\ req.ret = "rows"
    /\ req.n > 0
    /\ req.kind = "pair"
    /\ req.summary = "error"

\* C15: when the relational query of a keyword_search, list_all,
\* university_top_keywords or faculty_publications request fails (the
\* adapter returns None), the summary reports an error, unlike the summary
\* of a query that succeeded with zero rows.
C15_FailedQueryReportsError ==
    (req.fn \in SingleQueryFns /\ req.ret = "none") => req.summary = "error"

\* The keyword inputs that are non-blank after trimming.
NonBlankInputs == {i \in DOMAIN input : NonBlank(input[i])}

\* C16: a comparison is accepted exactly when at least 2 of its 5 inputs
\* are non-blank after trimming, repeated terms counting separately; a
\* rejected one returns the validation message and issues no query; one
\* that is accepted and runs to its end has one data point per non-blank
\* input, trimmed, in input order.
C16_ComparisonValidation ==
    req.fn = "compare_keywords" =>
        /\ req.summary = "validation" <=> Cardinality(NonBlankInputs) < 2
        /\ req.summary = "validation" => req.queries = 0 /\ req.points = << >>
        /\ req.summary # "validation" =>
              req.summary \in {"stats", "unavailable", "error"}
        /\ req.summary = "stats" =>
              /\ Len(req.points) = Cardinality(NonBlankInputs)
              /\ req.queries = Len(req.points)
              /\ \A j \in NonBlankInputs :
                    req.points[Cardinality({i \in NonBlankInputs : i <= j})].keyword
                        = Strip(input[j].text)

\* A comparison of the same term given twice (second and fifth input, the
\* others blank or empty) was accepted and has two data points.
C16_Witness ==
    /\ req.fn = "compare_keywords"
    /\ req.summary = "stats"
    /\ NonBlankInputs = {2, 5}
    /\ input[1] = TextTerm(<<" ">>)
    /\ Len(req.points) = 2
    /\ req.points[1].keyword = req.points[2].keyword

\* C18: every record the graph adapter returns is projected by field
\* name into an output entry: in the person search each graph record has
\* its entry in the report, in the time series each graph row is a data
\* point of the source "Neo4j".
C18_GraphRecordsProjected ==
    /\ pc = "done" => RecordsOf("neo4j") = ReturnedOf("neo4j")
    /\ (req.fn = "publications_timeseries" /\ req.gret = "rows" /\ req.gn > 0)
          => (req.source = "Neo4j" /\ Len(req.points) = req.gn)

RECURSIVE SumOfCounts(_)
SumOfCounts(parts) ==
    IF parts = << >> THEN 0 ELSE Head(parts).count + SumOfCounts(Tail(parts))

Aggregated == output # NoOutput

\* C19: the per-year counts of the group-by-year step sum to the number
\* of rows, the partition keys are exactly the distinct year values of
\* the rows, a null year being a value like any other, and the partitions
\* are in ascending order of the year.
C19_YearCountsPartitionRows ==
    Aggregated =>
        LET yc == output.year_counts
        IN  /\ SumOfCounts(yc) = Len(input)
            /\ {yc[i].key : i \in DOMAIN yc} = {input[i].year : i \in DOMAIN input}
            /\ \A i, j \in DOMAIN yc : i < j => yc[i].key < yc[j].key

\* The number of rows whose venue is v.
VenueCount(v) == Cardinality({i \in DOMAIN input : input[i].venue = v})

\* The summed count of the tokens equal to k.
TokenCount(k) ==
    LET ts == TokensOf(input)
        hit == SelectSeq(ts, LAMBDA t : t.key = k)
    IN  SumOfCounts(hit)

\* The venues and the tokens that form partitions.
VenuesIn == {input[i].venue : i \in DOMAIN input} \ {NullValue}

\* ranked is a top-N of the partitions whose keys and counts the function
\* counts gives.
IsTopN(ranked, counts) ==
    /\ Len(ranked) <= TopLimit
    /\ Len(ranked) = IF Cardinality(DOMAIN counts) < TopLimit
                      THEN Cardinality(DOMAIN counts) ELSE TopLimit
    /\ \A i, j \in DOMAIN ranked : i < j =>
          /\ ranked[i].count >= ranked[j].count
          /\ ranked[i].key # ranked[j].key
    /\ \A i \in DOMAIN ranked :
          /\ ranked[i].key \in DOMAIN counts
          /\ ranked[i].count = counts[ranked[i].key]
    /\ \A k \in DOMAIN counts :
          (\A i \in DOMAIN ranked : ranked[i].key # k) =>
              \A i \in DOMAIN ranked : counts[k] <= ranked[i].count

FirstEncounter(k) ==
    CHOOSE i \in DOMAIN input :
        /\ input[i].venue = k
        /\ \A j \in DOMAIN input : input[j].venue = k => i <= j

\* Partitions of equal count are in first-encountered order in ranked, and
\* a partition left out at the cut was met after every returned partition
\* of its count.
TiesFirstEncountered(ranked, counts) ==
    /\ \A i, j \in DOMAIN ranked :
          (i < j /\ ranked[i].count = ranked[j].count) =>
              FirstEncounter(ranked[i].key) < FirstEncounter(ranked[j].key)
    /\ \A k \in DOMAIN counts :
          (\A i \in DOMAIN ranked : ranked[i].key # k) =>
              \A i \in DOMAIN ranked :
                  counts[k] = ranked[i].count =>
                      FirstEncounter(ranked[i].key) < FirstEncounter(k)

\* C21: in the top-10 keywords of a university and the top-10 venues of
\* a faculty member, partitions with equal counts are ordered, and cut off
\* at 10, by the order in which they are first met in the input rows.
C21_TiesByFirstEncounter ==
    Aggregated =>
        /\ TiesFirstEncountered(output.top_keywords,
                                [k \in VenuesIn |-> TokenCount(k)])
        /\ TiesFirstEncountered(output.top_venues,
                                [v \in VenuesIn |-> VenueCount(v)])

StrAi  == <<"a", "i">>
StrNlp == <<"n", "l", "p">>
StrMachineLearning ==
    <<"m", "a", "c", "h", "i", "n", "e", " ", "l", "e", "a", "r", "n", "i",
      "n", "g">>

\* The count the mapping holds for key k, 0 when k is no key.
CountIn(mapping, k) ==
    IF \E i \in DOMAIN mapping : mapping[i].key = k
    THEN mapping[CHOOSE i \in DOMAIN mapping : mapping[i].key = k].count
    ELSE 0

\* The rows "AI, Machine Learning" and "ai,NLP", one publication each.
ExampleRows ==
    <<[keywords |-> KwAiMl, count |-> 1], [keywords |-> KwAiNlp, count |-> 1]>>

\* The rows " NLP ,machine learning" and "ai,NLP", one publication each.
VariantRows ==
    <<[keywords |-> KwNlpMl, count |-> 1], [keywords |-> KwAiNlp, count |-> 1]>>

Exploded == output # NoOutput

\* C22 as claimed: for the rows "AI, Machine Learning" and "ai,NLP" the
\* mapping has "ai" = 2, "machine learning" = 1 and "nlp" = 1.
C22_ExampleCountsAiTwice ==
    (Exploded /\ input = ExampleRows) =>
        /\ CountIn(output.keyword_counts, StrAi) = 2
        /\ CountIn(output.keyword_counts, StrMachineLearning) = 1
        /\ CountIn(output.keyword_counts, StrNlp) = 1

UpperChars == {"A", "I", "L", "M", "N", "P"}

\* C22 as amended: case and whitespace variants of a tag of three or more
\* characters are merged into one lowercased, trimmed key (no two keys
\* are equal, no key holds an upper-case letter or starts or ends with a
\* blank); shorter tokens are dropped, so "AI, Machine Learning" and
\* "ai,NLP" give "machine learning" = 1 and "nlp" = 1 and no key "ai",
\* and " NLP ,machine learning" and "ai,NLP" give "nlp" = 2.
C22_VariantsMergedShortDropped ==
    Exploded =>
        LET kc == output.keyword_counts
        IN  /\ \A i \in DOMAIN kc :
                  /\ Len(kc[i].key) > ShortTokenLen
                  /\ \A j \in DOMAIN kc[i].key : kc[i].key[j] \notin UpperChars
                  /\ Head(kc[i].key) # " "
                  /\ kc[i].key[Len(kc[i].key)] # " "
                  /\ \A j \in DOMAIN kc : kc[j].key = kc[i].key => j = i
            /\ input = ExampleRows =>
                  kc = <<[key |-> StrMachineLearning, count |-> 1],
                         [key |-> StrNlp, count |-> 1]>>
            /\ input = VariantRows =>
                  kc = <<[key |-> StrNlp, count |-> 2],
                         [key |-> StrMachineLearning, count |-> 1]>>

\* The rows " NLP ,machine learning" and "ai,NLP" were exploded: "nlp"
\* counts 2 and "ai" is no key.
C22_Witness ==
    /\ Exploded
    /\ input = VariantRows
    /\ CountIn(output.keyword_counts, StrNlp) = 2
    /\ CountIn(output.keyword_counts, StrAi) = 0

\* The comma-separated tokens of a row, trimmed and lowercased.
NormTokens(row) ==
    LET parts == Split(row.keywords, ",")
    IN  {LowerStr(Strip(parts[i])) : i \in DOMAIN parts}

\* The sum of the row counts of the rows that contain token k.
RECURSIVE RowCountSum(_, _)
RowCountSum(rows, k) ==
    IF rows = << >> THEN 0
    ELSE (IF k \in NormTokens(Head(rows)) THEN Head(rows).count ELSE 0)
         + RowCountSum(Tail(rows), k)

\* C23: in the keyword frequency mapping every key is a comma-separated
\* token of some input row after trimming and lowercasing, no key is
\* shorter than 3 characters, every such token of 3 or more characters is
\* a key, and the count of a key is the sum of the row counts of the rows
\* that contain the token.
C23_MappingIsTokenFrequency ==
    Exploded =>
        LET kc     == output.keyword_counts
            tokens == UNION {NormTokens(input[i]) : i \in DOMAIN input}
        IN  /\ \A i \in DOMAIN kc :
                  /\ kc[i].key \in tokens
                  /\ Len(kc[i].key) >= 3
                  /\ kc[i].count = RowCountSum(input, kc[i].key)
            /\ \A t \in tokens :
                  Len(t) >= 3 => \E i \in DOMAIN kc : kc[i].key = t

\* The request functions that compute the venue and citation statistics.
StatisticFns == {"keyword_search", "faculty_publications"}

\* C24: the statistics of a keyword_search or faculty_publications
\* request over an empty record set, or over records whose statistic
\* field (the venue) is null in every record, are returned with neutral
\* values next to the remaining statistics: the result is not an error
\* result.
C24_NeutralStatistics ==
    (req.fn \in StatisticFns /\ req.ret = "rows") =>
        /\ req.kind = "pair"
        /\ req.summary # "error"
        /\ (req.n > 0 /\ input = <<"null_venues">>) => req.summary = "stats"

\* The relational (graph) time-bucket query returned at least one row.
RelationalYields == req.ret = "rows" /\ req.n > 0
GraphYields      == req.gret = "rows" /\ req.gn > 0

\* C25: the publications time series is the generated substitute only
\* when no backend returned a dated row: when the time-bucket query of a
\* reachable backend returns at least one row, the series is built from
\* those rows and its source names that backend; the generated series,
\* and only it, has the source "Sample Data".
C25_SyntheticOnlyWithoutRealRows ==
    req.fn = "publications_timeseries" =>
        /\ RelationalYields =>
              (req.source = "MySQL" /\ Len(req.points) = req.n)
        /\ GraphYields =>
              (req.source = "Neo4j" /\ Len(req.points) = req.gn)
        /\ req.source = "Sample Data" =>
              (~RelationalYields /\ ~GraphYields)
        /\ req.source = "Sample Data" <=> req.points = << >>

\* The first backend, in the order relational, document, graph, whose
\* query yielded at least one row; the document query is never sent.
FirstYielding ==
    CASE RelationalYields -> "MySQL"
      [] GraphYields      -> "Neo4j"
      [] OTHER            -> "none"

\* C27: the time series is built from exactly one source, the first of
\* relational, document and graph whose query yields at least one row; a
\* later backend is queried only if every earlier one yielded no rows,
\* and the points of the series all come from that one source.
C27_FirstYieldingSource ==
    req.fn = "publications_timeseries" =>
        /\ FirstYielding # "none" => req.source = FirstYielding
        /\ req.gret # "not_issued" => ~RelationalYields
        /\ req.source = "MySQL" => Len(req.points) = req.n
        /\ req.source = "Neo4j" => Len(req.points) = req.gn

\* C26: in a person-search result other than "not found", every section
\* header is immediately followed by a record entry of its section, so
\* the report holds at least one record.
C26_HeaderFollowedByRecord ==
    (pc = "done" /\ result # "not_found") =>
        /\ \A i \in DOMAIN all_results :
              all_results[i].kind = "header" =>
                 /\ i < Len(all_results)
                 /\ all_results[i + 1].kind = "record"
                 /\ all_results[i + 1].b = all_results[i].b
                 /\ all_results[i + 1].cat = all_results[i].cat
        /\ RecordEntries # << >>

\* The driver returned a session object, which connect() assigned to the
\* session attribute of the handle.
SessionCreated(co) == co \in {"probe_fail", "ok"}

\* The last call was a connect() on a handle that owned a live session and
\* it replaced the session attribute: nothing closed the earlier session,
\* and nothing refers to it any more.
LeftOpen(b) ==
    /\ last.op = "connect"
    /\ last.b = b
    /\ last.before = LiveHandle
    /\ SessionCreated(last.co)

\* Sessions opened by the handle of backend b that are known to be open:
\* the one the handle refers to and the one the last call left behind.
OpenSessions(b) ==
    (IF handle[b] = LiveHandle THEN 1 ELSE 0) + (IF LeftOpen(b) THEN 1 ELSE 0)

\* C28: after any sequence of connect(), disconnect() and read calls on
\* a handle, at most one session opened by the handle is still open; a
\* connect() on a handle that owns a live session does not leave the
\* earlier session open and unreferenced.
C28_AtMostOneOpenSession ==
    \A b \in BackendSet : OpenSessions(b) <= 1 /\ ~LeftOpen(b)

\* C29: a read helper (get_table_info, get_tables, find_nodes,
\* find_relationships) returns an empty sequence when its query succeeds
\* with zero matches, and returns None only when the query failed.
C29_HelpersReturnEmptyOnNoMatch ==
    last.op \in HelperFns =>
        /\ last.matches = 0 => last.ret = "rows"
        /\ last.ret = "none" => last.matches = -1

\* At least h of the publications have at least h citations each.
HasHWith(cites, h) ==
    Cardinality({i \in DOMAIN cites : cites[i] >= h}) >= h

\* C30: for a non-empty list of non-negative citation counts the H-index
\* that faculty_publications reports is the largest h such that at least
\* h of the publications have at least h citations each.
C30_HIndexIsLargestH ==
    output # NoOutput =>
        /\ HasHWith(input, output.h_index)
        /\ \A h \in 0..Len(input) : HasHWith(input, h) => h <= output.h_index

====
